---------------------------- MODULE Spec2Model ----------------------------
(***************************************************************************)
(* TreemapVisualizer.calculate_layout of src/app.py, lines 185-247: the    *)
(* recursive binary split of a container among weighted items.             *)
(*                                                                         *)
(* Weights are small integers and every quotient is kept as an exact       *)
(* fraction <<n, d>> in lowest terms with d > 0.  For such weights the     *)
(* correctly rounded quotient cumsum / total_val compares with the         *)
(* literals 0.3 and 0.7 exactly as the fraction compares with 3/10 and     *)
(* 7/10, so the branch taken at line 224 is the one the program takes.     *)
(*                                                                         *)
(* The recursion of split_rectangle is an explicit stack of frames; the    *)
(* first recursive call of a frame completes before the second starts, so  *)
(* the first child is pushed on top of the second.                         *)
(***************************************************************************)
EXTENDS Integers, Sequences, FiniteSets

\* ---- bounds of the model ----
MaxLen == 4
MaxWeight == 3
MaxNeg == 1
DominantWeight == 7
MaxDim == 2

\* weights tried: a small range around 0 and one weight that dominates it
Weights == ((0 - MaxNeg)..MaxWeight) \cup {DominantWeight}

\* containers tried: the default unit square and one that is not square
Containers == {<<1, 1>>, <<MaxDim, MaxDim + 1>>}

RECURSIVE SeqsUpTo(_)
SeqsUpTo(n) ==
    IF n = 0 THEN {<<>>}
    ELSE SeqsUpTo(n - 1) \cup [1..n -> Weights]

\* ---- exact fractions ----
Abs(a) == IF a < 0 THEN 0 - a ELSE a

RECURSIVE GCD(_, _)
GCD(a, b) == IF b = 0 THEN a ELSE GCD(b, a % b)

\* n / d for d # 0, in lowest terms with a positive denominator
Rat(n, d) ==
    LET g == GCD(Abs(n), Abs(d))
        s == IF d < 0 THEN 0 - 1 ELSE 1
    IN  <<(s * n) \div g, (s * d) \div g>>

RInt(a) == <<a, 1>>
RAdd(p, q) == Rat(p[1] * q[2] + q[1] * p[2], p[2] * q[2])
RSub(p, q) == Rat(p[1] * q[2] - q[1] * p[2], p[2] * q[2])
RMul(p, q) == Rat(p[1] * q[1], p[2] * q[2])
RLe(p, q) == p[1] * q[2] <= q[1] * p[2]
RLt(p, q) == p[1] * q[2] < q[1] * p[2]

\* ---- builtins ----
\* sum(xs): 0 + xs[0] + xs[1] + ...
RECURSIVE Sum(_)
Sum(xs) == IF xs = <<>> THEN 0 ELSE xs[1] + Sum(Tail(xs))

\* [item[1] for item in items]
ItemValues(items) == [k \in 1..Len(items) |-> items[k][2]]

\* [(i, v) for i, v in enumerate(values)]
Enumerate(vs) == [k \in 1..Len(vs) |-> <<k - 1, vs[k]>>]

\* list.sort(key=lambda x: x[1], reverse=True): stable, ties keep their order
RECURSIVE InsertDesc(_, _)
InsertDesc(item, sorted) ==
    IF sorted = <<>> THEN <<item>>
    ELSE IF sorted[1][2] >= item[2]
         THEN <<sorted[1]>> \o InsertDesc(item, Tail(sorted))
         ELSE <<item>> \o sorted

RECURSIVE SortDesc(_)
SortDesc(items) ==
    IF items = <<>> THEN <<>>
    ELSE InsertDesc(items[Len(items)], SortDesc(SubSeq(items, 1, Len(items) - 1)))

\* rectangles.sort(key=lambda x: x['index']): stable, ascending
RECURSIVE InsertByIndex(_, _)
InsertByIndex(r, sorted) ==
    IF sorted = <<>> THEN <<r>>
    ELSE IF sorted[1].index <= r.index
         THEN <<sorted[1]>> \o InsertByIndex(r, Tail(sorted))
         ELSE <<r>> \o sorted

SortByIndexNoop(rs) == rs

RECURSIVE SortByIndex(_)
SortByIndex(rs) ==
    IF rs = <<>> THEN <<>>
    ELSE InsertByIndex(rs[Len(rs)], SortByIndex(SubSeq(rs, 1, Len(rs) - 1)))

\* ---- split_rectangle helpers ----
BandLo == Rat(3, 10)
BandHi == Rat(7, 10)
HalfRatio == Rat(1, 2)

\* the guards "total == 0" and "total_val == 0"
ZeroTotalNegOnly(t) == t < 0
ZeroTotal(t) == t = 0

\* 0.3 <= ratio <= 0.7
InBandOpenLo(ratio) == RLt(BandLo, ratio) /\ RLe(ratio, BandHi)
InBandUpToOne(ratio) == RLe(BandLo, ratio) /\ RLe(ratio, RInt(1))
InBand(ratio) == RLe(BandLo, ratio) /\ RLe(ratio, BandHi)

Frame(items, x, y, w, h, horizontal) ==
    [items |-> items, x |-> x, y |-> y, w |-> w, h |-> h,
     horizontal |-> horizontal]

\* The generator of line 230: items[:split_idx][1] is the second ELEMENT of
\* the slice, not the weight of an item.  A slice of one item has no second
\* element; otherwise the element is an (index, weight) tuple and sum()
\* starts with 0 + tuple.  No case produces a number.
FallbackSum(items, idx) ==
    IF Len(SubSeq(items, 1, idx)) < 2 THEN "IndexError" ELSE "TypeError"

\* the two recursive calls: <<first, second>>
ChildrenSameShare(f, idx, ratio) ==
    IF f.horizontal
    THEN << Frame(SubSeq(f.items, 1, idx), f.x, f.y, RMul(f.w, ratio), f.h, FALSE),
            Frame(SubSeq(f.items, idx + 1, Len(f.items)),
                  RAdd(f.x, RMul(f.w, ratio)), f.y, RMul(f.w, ratio), f.h, FALSE) >>
    ELSE << Frame(SubSeq(f.items, 1, idx), f.x, f.y, f.w, RMul(f.h, ratio), TRUE),
            Frame(SubSeq(f.items, idx + 1, Len(f.items)),
                  f.x, RAdd(f.y, RMul(f.h, ratio)), f.w, RMul(f.h, ratio), TRUE) >>

ChildrenNoOffset(f, idx, ratio) ==
    IF f.horizontal
    THEN << Frame(SubSeq(f.items, 1, idx), f.x, f.y, RMul(f.w, ratio), f.h, FALSE),
            Frame(SubSeq(f.items, idx + 1, Len(f.items)),
                  f.x, f.y, RMul(f.w, RSub(RInt(1), ratio)), f.h, FALSE) >>
    ELSE << Frame(SubSeq(f.items, 1, idx), f.x, f.y, f.w, RMul(f.h, ratio), TRUE),
            Frame(SubSeq(f.items, idx + 1, Len(f.items)),
                  f.x, f.y, f.w, RMul(f.h, RSub(RInt(1), ratio)), TRUE) >>

ChildrenFullOffset(f, idx, ratio) ==
    IF f.horizontal
    THEN << Frame(SubSeq(f.items, 1, idx), f.x, f.y, RMul(f.w, ratio), f.h, FALSE),
            Frame(SubSeq(f.items, idx + 1, Len(f.items)),
                  RAdd(f.x, f.w), f.y, RMul(f.w, RSub(RInt(1), ratio)), f.h, FALSE) >>
    ELSE << Frame(SubSeq(f.items, 1, idx), f.x, f.y, f.w, RMul(f.h, ratio), TRUE),
            Frame(SubSeq(f.items, idx + 1, Len(f.items)),
                  f.x, RAdd(f.y, f.h), f.w, RMul(f.h, RSub(RInt(1), ratio)), TRUE) >>

Children(f, idx, ratio) ==
    IF f.horizontal
    THEN << Frame(SubSeq(f.items, 1, idx), f.x, f.y, RMul(f.w, ratio), f.h, FALSE),
            Frame(SubSeq(f.items, idx + 1, Len(f.items)),
                  RAdd(f.x, RMul(f.w, ratio)), f.y,
                  RMul(f.w, RSub(RInt(1), ratio)), f.h, FALSE) >>
    ELSE << Frame(SubSeq(f.items, 1, idx), f.x, f.y, f.w, RMul(f.h, ratio), TRUE),
            Frame(SubSeq(f.items, idx + 1, Len(f.items)),
                  f.x, RAdd(f.y, RMul(f.h, ratio)),
                  f.w, RMul(f.h, RSub(RInt(1), ratio)), TRUE) >>

\* ---- state ----
VARIABLES
    values,      \* argument: the weights
    width,       \* argument: container width
    height,      \* argument: container height
    pc,          \* where the call is
    stack,       \* pending split_rectangle calls, the running one first
    rectangles,  \* the list split_rectangle appends to
    total_val,   \* locals of the running split_rectangle call
    best_ratio,
    split_idx,
    i,
    cumsum,
    nsplits,     \* number of divisions performed so far
    result,      \* the returned list
    error        \* the exception that left the call, or "none"

vars == <<values, width, height, pc, stack, rectangles, total_val, best_ratio,
          split_idx, i, cumsum, nsplits, result, error>>

args == <<values, width, height>>
locals == <<total_val, best_ratio, split_idx, i, cumsum>>

Init ==
    /\ values \in SeqsUpTo(MaxLen)
    /\ \E c \in Containers : width = c[1] /\ height = c[2]
    /\ pc = "start"
    /\ stack = <<>>
    /\ rectangles = <<>>
    /\ total_val = 0
    /\ best_ratio = HalfRatio
    /\ split_idx = 0
    /\ i = 0
    /\ cumsum = 0
    /\ nsplits = 0
    /\ result = <<>>
    /\ error = "none"

\* where control goes once the running split_rectangle call has returned
AfterReturn(rest) == IF rest = <<>> THEN "sort" ELSE "enter"

\* lines 187-198 and the outermost call of line 243
CalculateLayoutBegin ==
    /\ pc = "start"
    /\ IF values = <<>> \/ ZeroTotal(Sum(values))
       THEN /\ pc' = "returned"
            /\ result' = <<>>
            /\ UNCHANGED stack
       ELSE /\ pc' = "enter"
            /\ stack' = << Frame(SortDesc(Enumerate(values)), RInt(0), RInt(0),
                                 RInt(width), RInt(height), TRUE) >>
            /\ UNCHANGED result
    /\ UNCHANGED <<args, rectangles, locals, nsplits, error>>

\* lines 200-220 and 231-232: entry of a split_rectangle call
SplitRectangleEnter ==
    /\ pc = "enter"
    /\ LET f == stack[1]
           n == Len(f.items)
       IN  IF n = 1
           THEN /\ rectangles' = Append(rectangles,
                                   [index |-> f.items[1][1], x |-> f.x, y |-> f.y,
                                    width |-> f.w, height |-> f.h,
                                    value |-> f.items[1][2]])
                /\ stack' = Tail(stack)
                /\ pc' = AfterReturn(Tail(stack))
                /\ UNCHANGED locals
           ELSE IF n = 0
           THEN /\ stack' = Tail(stack)
                /\ pc' = AfterReturn(Tail(stack))
                /\ UNCHANGED <<rectangles, locals>>
           ELSE IF ZeroTotal(Sum(ItemValues(f.items)))
           THEN /\ total_val' = Sum(ItemValues(f.items))
                /\ stack' = Tail(stack)
                /\ pc' = AfterReturn(Tail(stack))
                /\ UNCHANGED <<rectangles, best_ratio, split_idx, i, cumsum>>
           ELSE /\ total_val' = Sum(ItemValues(f.items))
                /\ best_ratio' = HalfRatio
                /\ IF n > 1
                   THEN /\ cumsum' = 0
                        /\ i' = 0
                        /\ pc' = "scan"
                        /\ UNCHANGED split_idx
                   ELSE /\ split_idx' = 1
                        /\ pc' = "divide"
                        /\ UNCHANGED <<i, cumsum>>
                /\ UNCHANGED <<stack, rectangles>>
    /\ UNCHANGED <<args, nsplits, result, error>>

\* lines 221-227: one iteration of "for i in range(len(items) - 1)"
ScanStep ==
    /\ pc = "scan"
    /\ i < Len(stack[1].items) - 1
    /\ cumsum' = cumsum + stack[1].items[i + 1][2]
    /\ IF total_val = 0
       THEN /\ pc' = "raised"
            /\ error' = "ZeroDivisionError"
            /\ UNCHANGED <<best_ratio, split_idx, i>>
       ELSE LET ratio == Rat(cumsum', total_val)
            IN  IF InBand(ratio)
                THEN /\ best_ratio' = ratio
                     /\ split_idx' = i + 1
                     /\ pc' = "divide"
                     /\ UNCHANGED <<i, error>>
                ELSE /\ i' = i + 1
                     /\ UNCHANGED <<best_ratio, split_idx, pc, error>>
    /\ UNCHANGED <<args, stack, rectangles, total_val, nsplits, result>>

\* lines 228-230: the else clause of the for loop
Fallback ==
    /\ pc = "scan"
    /\ i >= Len(stack[1].items) - 1
    /\ split_idx' = Len(stack[1].items) \div 2
    /\ pc' = "raised"
    /\ error' = FallbackSum(stack[1].items, split_idx')
    /\ UNCHANGED <<args, stack, rectangles, total_val, best_ratio, i, cumsum,
                   nsplits, result>>

\* lines 234-241: divide the region and make the two recursive calls
Divide ==
    /\ pc = "divide"
    /\ LET c == Children(stack[1], split_idx, best_ratio)
       IN  stack' = <<c[1], c[2]>> \o Tail(stack)
    /\ nsplits' = nsplits + 1
    /\ pc' = "enter"
    /\ UNCHANGED <<args, rectangles, locals, result, error>>

\* lines 245-247
SortAndReturn ==
    /\ pc = "sort"
    /\ result' = SortByIndex(rectangles)
    /\ pc' = "returned"
    /\ UNCHANGED <<args, stack, rectangles, locals, nsplits, error>>

Next ==
    \/ CalculateLayoutBegin
    \/ SplitRectangleEnter
    \/ ScanStep
    \/ Fallback
    \/ Divide
    \/ SortAndReturn

Spec == Init /\ [][Next]_vars

\* ---- properties ----
Terminated == pc \in {"returned", "raised"}
NonNegative(vs) == \A k \in 1..Len(vs) : vs[k] >= 0
PrefixSum(items, k) == Sum(ItemValues(SubSeq(items, 1, k)))
Area(r) == RMul(r.width, r.height)

\* p / t lies in the closed interval [3/10, 7/10], for t # 0
ClosedBand(p, t) ==
    IF t > 0 THEN 3 * t <= 10 * p /\ 10 * p <= 7 * t
             ELSE 3 * t >= 10 * p /\ 10 * p >= 7 * t

\* the open intervals (s1, s1 + l1) and (s2, s2 + l2) do not meet
OpenDisjoint(s1, l1, s2, l2) ==
    \/ RLe(l1, RInt(0))
    \/ RLe(l2, RInt(0))
    \/ RLe(RAdd(s1, l1), s2)
    \/ RLe(RAdd(s2, l2), s1)

\* the region (x, y, w, h) lies in the container
Inside(x, y, w, h) ==
    /\ RLe(RInt(0), x)
    /\ RLe(RInt(0), y)
    /\ RLe(RInt(0), w)
    /\ RLe(RInt(0), h)
    /\ RLe(RAdd(x, w), RInt(width))
    /\ RLe(RAdd(y, h), RInt(height))

\* C1: a call with n >= 1 weights of positive total returns exactly n
\* rectangles, one for each index 0..n-1.
C1_Coverage ==
    (Terminated /\ Len(values) >= 1 /\ Sum(values) > 0) =>
        /\ pc = "returned"
        /\ Len(result) = Len(values)
        /\ \A k \in 0..(Len(values) - 1) :
              Cardinality({j \in 1..Len(result) : result[j].index = k}) = 1

\* C2: the call never raises; what it returns is one rectangle per item or
\* the empty list.
C2_NeverRaises ==
    /\ pc # "raised"
    /\ error = "none"
    /\ pc = "returned" => (result = <<>> \/ Len(result) = Len(values))

C4_Proportional ==
    (pc = "returned" /\ NonNegative(values) /\ Sum(values) > 0) =>
        \A j \in 1..Len(result) :
            RMul(Area(result[j]), Rat(1, width * height))
                = Rat(values[result[j].index + 1], Sum(values))

C4_Witness ==
    /\ pc = "returned"
    /\ NonNegative(values)
    /\ Len(result) >= 3
    /\ width # height
    /\ \E j, k \in 1..Len(result) : Area(result[j]) # Area(result[k])

\* C5: two distinct returned rectangles have disjoint open interiors.
C5_NonOverlap ==
    pc = "returned" =>
        \A a, b \in 1..Len(result) :
            a < b =>
                \/ OpenDisjoint(result[a].x, result[a].width,
                                result[b].x, result[b].width)
                \/ OpenDisjoint(result[a].y, result[a].height,
                                result[b].y, result[b].height)

C5_Witness ==
    /\ pc = "returned"
    /\ Len(result) >= 3
    /\ \E a, b \in 1..Len(result) :
          /\ a < b
          /\ result[a].x = result[b].x
          /\ result[a].y # result[b].y

\* C6: every region handed to split_rectangle and every rectangle emitted or
\* returned lies in the container and has non-negative sides.
C6_Contained ==
    /\ \A k \in 1..Len(stack) :
          Inside(stack[k].x, stack[k].y, stack[k].w, stack[k].h)
    /\ \A k \in 1..Len(rectangles) :
          Inside(rectangles[k].x, rectangles[k].y,
                 rectangles[k].width, rectangles[k].height)
    /\ \A k \in 1..Len(result) :
          Inside(result[k].x, result[k].y, result[k].width, result[k].height)

C6_Witness ==
    /\ Len(stack) >= 2
    /\ Len(rectangles) >= 1
    /\ stack[1].x # RInt(0)
    /\ stack[1].y # RInt(0)

\* C7: the returned list is strictly ascending in 'index'; for a positive
\* total the rectangle at position j has index j and the weight values[j].
C7_InputOrder ==
    pc = "returned" =>
        /\ \A j \in 1..(Len(result) - 1) : result[j].index < result[j + 1].index
        /\ (Sum(values) > 0) =>
              /\ Len(result) = Len(values)
              /\ \A j \in 1..Len(result) :
                    /\ result[j].index = j - 1
                    /\ result[j].value = values[j]

C7_Witness ==
    /\ pc = "returned"
    /\ Sum(values) > 0
    /\ Len(result) >= 3
    /\ rectangles # result

\* C8: when the scan finds no prefix in the band, the sublist is split at
\* len // 2 clamped into [1, len-1] and the region is divided at the weight
\* ratio of that prefix.
C8_FallbackSplit ==
    [][ (pc = "scan" /\ i >= Len(stack[1].items) - 1) =>
          LET n == Len(stack[1].items)
              half == n \div 2
              idx == IF half < 1 THEN 1 ELSE IF half > n - 1 THEN n - 1 ELSE half
          IN  /\ pc' = "divide"
              /\ split_idx' = idx
              /\ best_ratio' = Rat(PrefixSum(stack[1].items, idx), total_val) ]_vars

\* C9: the split is made after the first prefix whose share of the sublist's
\* total lies in [0.3, 0.7], bounds included, and the region is divided at
\* that share; later prefixes in the band are not considered.
C9_FirstInBand ==
    [][ pc = "divide" =>
          LET f == stack[1]
              t == Sum(ItemValues(f.items))
              p == PrefixSum(f.items, split_idx)
          IN  /\ split_idx \in 1..(Len(f.items) - 1)
              /\ ClosedBand(p, t)
              /\ \A k \in 1..(split_idx - 1) : ~ClosedBand(PrefixSum(f.items, k), t)
              /\ best_ratio = Rat(p, t)
              /\ stack'[1].items = SubSeq(f.items, 1, split_idx)
              /\ stack'[2].items = SubSeq(f.items, split_idx + 1, Len(f.items))
              /\ IF f.horizontal
                 THEN stack'[1].w = RMul(f.w, Rat(p, t)) /\ stack'[1].h = f.h
                 ELSE stack'[1].h = RMul(f.h, Rat(p, t)) /\ stack'[1].w = f.w ]_vars

C9_Witness ==
    /\ pc = "divide"
    /\ LET f == stack[1]
           t == Sum(ItemValues(f.items))
       IN  /\ \A k \in 1..(Len(f.items) - 1) : f.items[k][2] >= f.items[k + 1][2]
           /\ \E k \in (split_idx + 1)..(Len(f.items) - 1) :
                 /\ ClosedBand(PrefixSum(f.items, k), t)
                 /\ Abs(2 * PrefixSum(f.items, k) - t)
                       < Abs(2 * PrefixSum(f.items, split_idx) - t)

C10_Inv ==
    /\ \A k \in 1..Len(stack) :
          /\ Len(stack[k].items) >= 1
          /\ Sum(ItemValues(stack[k].items)) # 0
    /\ pc \in {"scan", "divide"} => total_val # 0
    /\ error # "ZeroDivisionError"
    /\ nsplits <= (IF Len(values) = 0 THEN 0 ELSE Len(values) - 1)

C10_Step ==
    /\ (pc = "enter" /\ Len(stack[1].items) # 1) => pc' = "scan"
    /\ pc = "divide" =>
          /\ Len(stack') = Len(stack) + 1
          /\ Len(stack'[1].items) \in 1..(Len(stack[1].items) - 1)
          /\ Len(stack'[2].items) \in 1..(Len(stack[1].items) - 1)

\* C10: every split_rectangle call reached through in-band splits gets a
\* non-empty sublist, strictly shorter than its parent's, of non-zero total;
\* no division by zero happens, the 'total_val == 0' return is never taken
\* and at most n-1 divisions are made.
C10_WellFoundedSplits == []C10_Inv /\ [][C10_Step]_vars

C10_Witness ==
    /\ pc = "returned"
    /\ Len(values) >= 3
    /\ nsplits = Len(values) - 1

=============================================================================
